---- MODULE Spec2Model ----
(***************************************************************************)
(* A model of user/my_shell.c, the custom shell for xv6: the parser that   *)
(* turns the line buffer into a command tree (parse_command and friends)   *)
(* and the executor (run_command) that walks the tree with fork, wait,     *)
(* pipe, dup, open, close and exec.                                        *)
(*                                                                         *)
(* Buffers are sequences of one-character strings.  A C pointer into a     *)
(* buffer is a 1-based position in the sequence, and 0 is the NULL         *)
(* pointer.  The static line buffer is zero filled, so every position      *)
(* after the end of the sequence reads as NUL.                             *)
(***************************************************************************)
EXTENDS Integers, Sequences, FiniteSets, TLC

\* ------------------------------------------------------------- constants

MAXIMUM_ARGUMENTS == 16

NUL == "<NUL>"
VT == "<VT>"

\* char whitespace[6] = " \t\r\n\v";
whitespace == <<" ", "\t", "\r", "\n", VT, NUL>>

\* ---------------------------------------------------------------- bounds

\* every line of at most this many characters is an input of the main loop
MaxLineLen == 3
\* process table slots besides the shell's own
MaxProcs == 5
\* highest descriptor number of a process
MaxFd == 5
\* the token lines given to parse_execute have up to this many tokens
MaxTokens == 18
\* the longest line handed to parse_command on its own
MaxParseLen == 5

\* ------------------------------------------------------- string functions

\* *(buffer + i) of a zero-filled buffer
Ch(buf, i) == IF i >= 1 /\ i <= Len(buf) THEN buf[i] ELSE NUL

\* s + strlen(s): the position of the terminator of the string at s
RECURSIVE StrEnd(_, _)
StrEnd(buf, s) == IF Ch(buf, s) = NUL THEN s ELSE StrEnd(buf, s + 1)

\* the C string at s, as a sequence of characters
CStr(buf, s) == [i \in 1..(StrEnd(buf, s) - s) |-> buf[s + i - 1]]

\* ulib's strchr: the first position of c in the string at s, 0 when the
\* terminator is reached first (so 0 for c = NUL)
RECURSIVE strchr(_, _, _)
strchr(buf, s, c) ==
    IF Ch(buf, s) = NUL THEN 0
    ELSE IF buf[s] = c THEN s
    ELSE strchr(buf, s + 1, c)

\* the loop of strrchr: from p down to s
RECURSIVE strrchr_from(_, _, _, _)
strrchr_from(buf, s, p, c) ==
    IF p < s THEN 0
    ELSE IF Ch(buf, p) = c THEN p
    ELSE strrchr_from(buf, s, p - 1, c)

\* the shell's own strrchr: the last position of c in the string at s
strrchr(buf, s, c) == strrchr_from(buf, s, StrEnd(buf, s), c)

\* strchr(whitespace, c) != NULL
IsWhite(c) == strchr(whitespace, 1, c) # 0

\* while (strchr(whitespace, buffer[0]) != NULL) buffer++;
RECURSIVE SkipWhite(_, _)
SkipWhite(buf, p) == IF IsWhite(Ch(buf, p)) THEN SkipWhite(buf, p + 1) ELSE p

\* a store of the terminator that is forgotten
PutNulForgotten(buf, i) == buf

\* buffer[i] = NULL
PutNul(buf, i) == [buf EXCEPT ![i] = NUL]

\* ------------------------------------------------------------ the parser

\* create_execute_command: the zeroed argv
EmptyArgv == [i \in 1..MAXIMUM_ARGUMENTS |-> 0]

\* p_command->argv[argi] = buffer: C index argi is position argi + 1 of
\* argv; an index past the array is recorded in writes and leaves argv alone
StoreArg(r, argi, p) ==
    IF argi < MAXIMUM_ARGUMENTS
    THEN [r EXCEPT !.argv[argi + 1] = p, !.writes = @ \cup {argi}]
    ELSE [r EXCEPT !.writes = @ \cup {argi}]

\* the argument loop of parse_execute; r holds buf, argv and the set of
\* argv indices written so far
RECURSIVE ArgLoop(_, _, _)
ArgLoop(r, p, argi) ==
    IF ~(argi < MAXIMUM_ARGUMENTS) THEN r
    ELSE IF Ch(r.buf, p) = NUL THEN r
    ELSE IF IsWhite(Ch(r.buf, p))
    THEN LET r1 == [r EXCEPT !.buf = PutNul(r.buf, p)]
             p1 == SkipWhite(r1.buf, p + 1)
         IN  IF Ch(r1.buf, p1) = NUL THEN r1
             ELSE ArgLoop(StoreArg(r1, argi + 1, p1), p1, argi + 1)
    ELSE ArgLoop(r, p + 1, argi)

\* parse_execute(buffer) on the buffer buf, where buffer points at s
parse_execute(buf, s) ==
    LET p == SkipWhite(buf, s)
        r0 == [buf |-> buf, argv |-> EmptyArgv, writes |-> {}]
        r == IF Ch(buf, p) = NUL THEN r0
             ELSE ArgLoop(StoreArg(r0, 0, p), p, 0)
    IN  [buf |-> r.buf, err |-> FALSE, writes |-> r.writes,
         cmd |-> [type |-> "execute", argv |-> r.argv]]

\* parse_redirection_file_name: the token end
RECURSIVE NameEnd(_, _)
NameEnd(buf, p) ==
    IF ~IsWhite(Ch(buf, p)) /\ Ch(buf, p) # NUL THEN NameEnd(buf, p + 1) ELSE p

\* a parse_redirection_file_name that lets an empty file name through
FileNameUnchecked(buf, s) ==
    LET output == SkipWhite(buf, s)
        e == NameEnd(buf, output)
        buf1 == IF e <= Len(buf) THEN PutNul(buf, e) ELSE buf
    IN  [buf |-> buf1, output |-> output, err |-> FALSE]

\* parse_redirection_file_name(buffer): err when error() is called
parse_redirection_file_name(buf, s) ==
    LET output == SkipWhite(buf, s)
        e == NameEnd(buf, output)
        buf1 == IF e <= Len(buf) THEN PutNul(buf, e) ELSE buf
    IN  [buf |-> buf1, output |-> output, err |-> Ch(buf1, output) = NUL]

NoCommand == [type |-> "none"]
ParseError(buf) == [buf |-> buf, err |-> TRUE, writes |-> {}, cmd |-> NoCommand]

RECURSIVE parse_command(_, _)

\* a parse_list that splits at the last ';' of the line
parse_list_last(buf, s, split) ==
    LET k == strrchr(buf, s, ";")
        l == parse_command(PutNul(buf, k), s)
    IN  IF l.err THEN ParseError(l.buf)
        ELSE LET r == parse_command(l.buf, k + 1)
             IN  IF r.err THEN ParseError(r.buf)
                 ELSE [buf |-> r.buf, err |-> FALSE,
                       writes |-> l.writes \cup r.writes,
                       cmd |-> [type |-> "list", left |-> l.cmd,
                                right |-> r.cmd]]

\* parse_list(buffer, p_split): error() in either half ends the process
parse_list(buf, s, split) ==
    LET l == parse_command(PutNul(buf, split), s)
    IN  IF l.err THEN ParseError(l.buf)
        ELSE LET r == parse_command(l.buf, split + 1)
             IN  IF r.err THEN ParseError(r.buf)
                 ELSE [buf |-> r.buf, err |-> FALSE,
                       writes |-> l.writes \cup r.writes,
                       cmd |-> [type |-> "list", left |-> l.cmd,
                                right |-> r.cmd]]

\* a parse_pipe that splits at the last '|' of the text
parse_pipe_last(buf, s, split) ==
    LET k == strrchr(buf, s, "|")
        l == parse_command(PutNul(buf, k), s)
    IN  IF l.err THEN ParseError(l.buf)
        ELSE LET r == parse_command(l.buf, k + 1)
             IN  IF r.err THEN ParseError(r.buf)
                 ELSE [buf |-> r.buf, err |-> FALSE,
                       writes |-> l.writes \cup r.writes,
                       cmd |-> [type |-> "pipe", left |-> l.cmd,
                                right |-> r.cmd]]

\* parse_pipe(buffer, p_split)
parse_pipe(buf, s, split) ==
    LET l == parse_command(PutNul(buf, split), s)
    IN  IF l.err THEN ParseError(l.buf)
        ELSE LET r == parse_command(l.buf, split + 1)
             IN  IF r.err THEN ParseError(r.buf)
                 ELSE [buf |-> r.buf, err |-> FALSE,
                       writes |-> l.writes \cup r.writes,
                       cmd |-> [type |-> "pipe", left |-> l.cmd,
                                right |-> r.cmd]]

\* parse_redirection(buffer, p_split): the inner command is parsed before
\* the file name
parse_redirection(buf, s, split) ==
    LET direction == buf[split]
        c == parse_command(PutNul(buf, split), s)
    IN  IF c.err THEN ParseError(c.buf)
        ELSE LET f == parse_redirection_file_name(c.buf, split + 1)
             IN  IF f.err THEN ParseError(f.buf)
                 ELSE [buf |-> f.buf, err |-> FALSE, writes |-> c.writes,
                       cmd |-> [type |-> "redirection", command |-> c.cmd,
                                file_name |-> f.output,
                                file_mode |-> IF direction = "<"
                                              THEN "O_RDONLY"
                                              ELSE "O_WRONLY|O_CREATE",
                                file_descriptor |-> IF direction = "<"
                                                    THEN 0 ELSE 1]]

\* a parse_command that splits at the earlier of the last '>' and the last '<'
parse_command_earlier(buf, s) ==
    IF strchr(buf, s, ";") # 0
    THEN parse_list(buf, s, strchr(buf, s, ";"))
    ELSE IF strchr(buf, s, "|") # 0
    THEN parse_pipe(buf, s, strchr(buf, s, "|"))
    ELSE IF strrchr(buf, s, ">") # 0 /\ strrchr(buf, s, "<") = 0
    THEN parse_redirection(buf, s, strrchr(buf, s, ">"))
    ELSE IF strrchr(buf, s, "<") # 0 /\ strrchr(buf, s, ">") = 0
    THEN parse_redirection(buf, s, strrchr(buf, s, "<"))
    ELSE IF strrchr(buf, s, ">") # 0 /\ strrchr(buf, s, "<") # 0
    THEN IF strrchr(buf, s, ">") < strrchr(buf, s, "<")
         THEN parse_redirection(buf, s, strrchr(buf, s, ">"))
         ELSE parse_redirection(buf, s, strrchr(buf, s, "<"))
    ELSE parse_execute(buf, s)

\* parse_command(buffer) on the buffer buf, where buffer points at s
parse_command(buf, s) ==
    IF strchr(buf, s, ";") # 0
    THEN parse_list(buf, s, strchr(buf, s, ";"))
    ELSE IF strchr(buf, s, "|") # 0
    THEN parse_pipe(buf, s, strchr(buf, s, "|"))
    ELSE IF strrchr(buf, s, ">") # 0 /\ strrchr(buf, s, "<") = 0
    THEN parse_redirection(buf, s, strrchr(buf, s, ">"))
    ELSE IF strrchr(buf, s, "<") # 0 /\ strrchr(buf, s, ">") = 0
    THEN parse_redirection(buf, s, strrchr(buf, s, "<"))
    ELSE IF strrchr(buf, s, ">") # 0 /\ strrchr(buf, s, "<") # 0
    THEN IF strrchr(buf, s, ">") < strrchr(buf, s, "<")
         THEN parse_redirection(buf, s, strrchr(buf, s, "<"))
         ELSE parse_redirection(buf, s, strrchr(buf, s, ">"))
    ELSE parse_execute(buf, s)

\* The tree as run_command reads it: every char* followed to its string in
\* the buffer as parsing left it, argv read up to its first NULL.
RECURSIVE ArgStrings(_, _, _)
ArgStrings(buf, argv, i) ==
    IF i > MAXIMUM_ARGUMENTS \/ argv[i] = 0 THEN <<>>
    ELSE <<CStr(buf, argv[i])>> \o ArgStrings(buf, argv, i + 1)

RECURSIVE Strings(_, _)
Strings(buf, cmd) ==
    IF cmd.type = "execute"
    THEN [type |-> "execute", argv |-> ArgStrings(buf, cmd.argv, 1)]
    ELSE IF cmd.type = "redirection"
    THEN [type |-> "redirection", command |-> Strings(buf, cmd.command),
          file_name |-> CStr(buf, cmd.file_name),
          file_mode |-> cmd.file_mode,
          file_descriptor |-> cmd.file_descriptor]
    ELSE [type |-> cmd.type, left |-> Strings(buf, cmd.left),
          right |-> Strings(buf, cmd.right)]

\* ------------------------------------------------------------- the state

VARIABLES
    procs,        \* the process table: the shell (0) and the processes of lines
    forkFailed,   \* history: a safe_fork has failed since the last prompt
    stdin,        \* the lines the shell has still to read
    arg_buffer,   \* the buffer handed to the parser on its own
    parsed        \* what the parser made of arg_buffer

vars == <<procs, forkFailed, stdin, arg_buffer, parsed>>

Pids == 0..MaxProcs
LinePids == 1..MaxProcs
Fds == 0..MaxFd

\* the inputs of the main loop: every line over the shell's alphabet up to
\* MaxLineLen characters, and some longer ones
Alphabet == {"a", " ", ">", "<", ";", "|"}
ExtraLines ==
    { <<"a", "|", "a", "|", "a">>, <<"a", "|", "a", ";", "a">>,
      <<"a", ";", "a", "|", "a">>, <<"a", "<", "a", ">", "a">>,
      <<"a", "|", "a", ">", "a">>, <<"a", ">", "a", "|", "a">>,
      <<"a", ";", "a", ">", " ">>, <<"c", "d", " ", "a">>,
      <<"a", ">", "b", ">", "c">>, <<"a", "<", "b", "<", "c">> }
Lines == UNION {[1..k -> Alphabet] : k \in 0..MaxLineLen} \cup ExtraLines

\* what the shell is given to read: nothing, one line, or one of a few
\* scripts of two lines
ExtraScripts ==
    { << <<"a", "|", "a">>, <<"a">> >>,
      << <<"c", "d", " ", "a">>, <<"a", ";", "a">> >>,
      << <<"a", ">", " ">>, <<"a">> >> }
Scripts == {<<>>} \cup {<<line>> : line \in Lines} \cup ExtraScripts

\* an entry of a descriptor table; a pipe is named by the process that
\* created it (a process creates at most one)
Closed == [kind |-> "closed", pipe |-> 0, name |-> <<>>]
Console == [kind |-> "console", pipe |-> 0, name |-> <<>>]
File(name) == [kind |-> "file", pipe |-> 0, name |-> name]
PipeRead(q) == [kind |-> "pipe_read", pipe |-> q, name |-> <<>>]
PipeWrite(q) == [kind |-> "pipe_write", pipe |-> q, name |-> <<>>]
AllClosed == [fd \in Fds |-> Closed]

\* a line written to the error stream
NoMsg == [text |-> "", arg |-> <<>>]
Msg(text, arg) == [text |-> text, arg |-> arg]

Unused ==
    [st |-> "unused", pc |-> "none", parent |-> 0, orphan |-> FALSE,
     anc |-> {}, sides |-> {}, fds |-> AllClosed, cmd |-> NoCommand,
     buffer |-> <<>>, pfd |-> <<0, 0>>, xstatus |-> 0, msg |-> NoMsg,
     prog |-> <<>>, opened |-> <<>>]

Live(p) == procs[p].st = "live"
At(p, pc) == procs[p].st = "live" /\ procs[p].pc = pc

\* ------------------------------------------------- the kernel's services

Min(S) == CHOOSE x \in S : \A y \in S : x <= y

\* the descriptor a successful open, dup or pipe returns: the lowest free
FreeFds(fds) == {fd \in Fds : fds[fd].kind = "closed"}
LowestFree(fds) == Min(FreeFds(fds))

\* a slot of the process table that nothing refers to any more
FreeSlots ==
    {c \in LinePids : procs[c].st = "unused"
                      /\ \A p \in Pids : c \notin procs[p].anc}

Children(P, p) ==
    {c \in Pids : P[c].st # "unused" /\ P[c].parent = p /\ ~P[c].orphan /\ c # p}
ZombieChildren(P, p) == {c \in Children(P, p) : P[c].st = "zombie"}

\* exit(status) of p, after msg went to the error stream: its descriptors
\* are closed and its children are handed to init
Exit(p, status, msg) ==
    [c \in Pids |->
        IF c = p
        THEN [procs[p] EXCEPT !.st = "zombie", !.pc = "exited",
                              !.fds = AllClosed, !.cmd = NoCommand,
                              !.buffer = <<>>, !.pfd = <<0, 0>>,
                              !.xstatus = status, !.msg = msg,
                              !.opened = <<>>]
        ELSE IF c \in Children(procs, p)
        THEN [procs[c] EXCEPT !.orphan = TRUE]
        ELSE procs[c]]

\* fork() of p succeeding: the child, in the lowest free slot, is a copy of p
Fork(p, parentpc, childpc, childsides, childcmd) ==
    LET c == Min(FreeSlots)
    IN  [procs EXCEPT ![p].pc = parentpc,
                      ![c] = [procs[p] EXCEPT !.pc = childpc, !.parent = p,
                                              !.orphan = FALSE,
                                              !.anc = procs[p].anc \cup {p},
                                              !.sides = @ \cup childsides,
                                              !.cmd = childcmd,
                                              !.msg = NoMsg,
                                              !.opened = <<>>]]

\* close(fd) of p, then on to nextpc
Close(p, fd, nextpc) ==
    [procs EXCEPT ![p].fds = [@ EXCEPT ![fd] = Closed], ![p].pc = nextpc]

\* dup(fd) of p, then on to nextpc
Dup(p, fd, nextpc) ==
    IF procs[p].fds[fd].kind = "closed" \/ FreeFds(procs[p].fds) = {}
    THEN [procs EXCEPT ![p].pc = nextpc]
    ELSE [procs EXCEPT ![p].fds = [@ EXCEPT ![LowestFree(@)] = procs[p].fds[fd]],
                       ![p].pc = nextpc]

\* wait(0) of p returning: with the zombie child c reaped, or at once when p
\* has no child
WaitReturns(p, c) ==
    \/ c \in ZombieChildren(procs, p)
    \/ c = p /\ Children(procs, p) = {}
Reaped(p, c) == IF c = p THEN procs ELSE [procs EXCEPT ![c] = Unused]

\* ------------------------------------------------------------- the errors

\* error(message): the message, then exit(1)
error(p, message) == Exit(p, 1, Msg(message, <<>>))

\* safe_fork() in p
safe_fork(p, parentpc, childpc, childsides, childcmd) ==
    \/ /\ FreeSlots # {}
       /\ procs' = Fork(p, parentpc, childpc, childsides, childcmd)
       /\ UNCHANGED forkFailed
    \/ /\ procs' = error(p, "Failed fork")
       /\ forkFailed' = TRUE

\* -------------------------------------------------------------- the shell

\* remove_prefixed_whitespace_buffer(buffer)
RECURSIVE remove_prefixed_whitespace_buffer(_)
remove_prefixed_whitespace_buffer(buf) ==
    IF IsWhite(Ch(buf, 1)) THEN remove_prefixed_whitespace_buffer(Tail(buf))
    ELSE buf

\* terminate_buffer(buffer): buffer[strlen(buffer) - 1] = NULL; on the empty
\* string the byte is written before the array and the buffer stays as it is
terminate_buffer(buf) ==
    IF StrEnd(buf, 1) = 1 THEN buf ELSE SubSeq(buf, 1, StrEnd(buf, 1) - 2)

\* strcmp(cd_test, "cd ") == 0
IsCd(buf) == <<Ch(buf, 1), Ch(buf, 2), Ch(buf, 3)>> = <<"c", "d", " ">>

\* open_console_file_descriptor: one turn of its loop
OpenConsole ==
    /\ At(0, "console")
    /\ procs' =
         IF FreeFds(procs[0].fds) = {}
         THEN [procs EXCEPT ![0].pc = "prompt"]
         ELSE IF LowestFree(procs[0].fds) >= 3
         THEN [procs EXCEPT ![0].pc = "prompt"]
         ELSE [procs EXCEPT ![0].fds[LowestFree(procs[0].fds)] = Console]
    /\ UNCHANGED <<forkFailed, stdin, arg_buffer, parsed>>

\* prompt_user finding the end of the input: main leaves its loop, exit(0)
PromptEnd ==
    /\ At(0, "prompt")
    /\ stdin = <<>>
    /\ procs' = Exit(0, 0, NoMsg)
    /\ UNCHANGED <<forkFailed, stdin, arg_buffer, parsed>>

\* gets returning a line, and main up to its fork: the line is made ready,
\* and a cd line is carried out at once, up to the gets of the next turn.  A line of whitespace only
\* makes terminate_buffer write before the buffer: the shell goes on, or it
\* is killed by what the stray byte hit.
PromptUser ==
    /\ At(0, "prompt")
    /\ stdin # <<>>
    /\ LET line == Head(stdin)
           stripped == remove_prefixed_whitespace_buffer(line \o <<"\n">>)
           buffer == terminate_buffer(stripped)
       IN  \/ /\ stripped # <<>>
              /\ ~IsCd(buffer)
              /\ procs' = [procs EXCEPT ![0].buffer = buffer,
                                        ![0].msg = NoMsg, ![0].pc = "fork"]
           \/ /\ stripped # <<>>
              /\ IsCd(buffer)
              /\ \E cd_success \in {0, -1} :
                   procs' = [procs EXCEPT
                     ![0].buffer = <<>>,
                     ![0].msg = IF cd_success < 0
                                THEN Msg("Failed cd",
                                         remove_prefixed_whitespace_buffer(
                                             SubSeq(buffer, 4, Len(buffer))))
                                ELSE NoMsg]
           \/ /\ stripped = <<>>
              /\ \/ procs' = [procs EXCEPT ![0].buffer = buffer,
                                           ![0].msg = NoMsg, ![0].pc = "fork"]
                 \/ procs' = Exit(0, 0 - 1, NoMsg)
    /\ stdin' = Tail(stdin)
    /\ forkFailed' = FALSE
    /\ UNCHANGED <<arg_buffer, parsed>>

\* main: if (safe_fork() == 0) run_command(parse_command(buffer));
MainFork ==
    /\ At(0, "fork")
    /\ safe_fork(0, "wait", "parse", {}, NoCommand)
    /\ UNCHANGED <<stdin, arg_buffer, parsed>>

\* a main that ends with the status of a line that failed
MainWaitPassesFailure ==
    /\ At(0, "wait")
    /\ \E c \in Pids :
         /\ WaitReturns(0, c)
         /\ procs' = IF c # 0 /\ procs[c].xstatus # 0
                     THEN [c1 \in Pids |->
                             IF c1 = c THEN Unused
                             ELSE Exit(0, procs[c].xstatus, NoMsg)[c1]]
                     ELSE [Reaped(0, c) EXCEPT ![0].buffer = <<>>,
                                               ![0].pc = "prompt"]
    /\ UNCHANGED <<forkFailed, stdin, arg_buffer, parsed>>

\* main: wait(0), then the next turn of the loop: prompt_user writes the
\* prompt, clears the buffer and waits in gets
MainWait ==
    /\ At(0, "wait")
    /\ \E c \in Pids :
         /\ WaitReturns(0, c)
         /\ procs' = [Reaped(0, c) EXCEPT ![0].buffer = <<>>,
                                          ![0].pc = "prompt"]
    /\ UNCHANGED <<forkFailed, stdin, arg_buffer, parsed>>

\* init's wait loop collecting a process the shell's tree left behind
InitReap(c) ==
    /\ c \in LinePids
    /\ procs[c].st = "zombie" /\ procs[c].orphan
    /\ procs' = [procs EXCEPT ![c] = Unused]
    /\ UNCHANGED <<forkFailed, stdin, arg_buffer, parsed>>

\* ---------------------------------------------------- the line's processes

\* the buffers that main hands to parse_command
Buffers ==
    {terminate_buffer(remove_prefixed_whitespace_buffer(line \o <<"\n">>)) :
        line \in Lines \cup UNION {{script[i] : i \in 1..Len(script)} :
                                      script \in ExtraScripts}}

\* parse_command(buffer) for each of these buffers: whether error() was
\* called, and the tree with its strings
ParseTable ==
    [buffer \in Buffers |->
        LET r == parse_command(buffer, 1)
        IN  [err |-> r.err,
             cmd |-> IF r.err THEN NoCommand ELSE Strings(r.buf, r.cmd)]]

\* the child of main: parse_command(buffer), whose error() ends the process
Parse(p) ==
    /\ At(p, "parse")
    /\ LET r == ParseTable[procs[p].buffer]
       IN  procs' =
             IF r.err
             THEN error(p, "Failed to parse filename for redirection")
             ELSE [procs EXCEPT ![p].cmd = r.cmd,
                                ![p].buffer = <<>>, ![p].pc = "run"]
    /\ UNCHANGED <<forkFailed, stdin, arg_buffer, parsed>>

\* a run_command that hands an empty argument list to exec
RunExecuteUnchecked(p) ==
    /\ At(p, "run") /\ procs[p].cmd.type = "execute"
    /\ \/ /\ procs[p].cmd.argv # <<>>
          /\ procs' = [procs EXCEPT ![p].pc = "program",
                                    ![p].prog = procs[p].cmd.argv,
                                    ![p].cmd = NoCommand]
       \/ procs' = Exit(p, 0, Msg("Failed to execute",
                                  IF procs[p].cmd.argv = <<>> THEN <<>>
                                  ELSE procs[p].cmd.argv[1]))
    /\ UNCHANGED <<forkFailed, stdin, arg_buffer, parsed>>

\* run_command, case execute_command
RunExecute(p) ==
    /\ At(p, "run") /\ procs[p].cmd.type = "execute"
    /\ IF procs[p].cmd.argv = <<>>
       THEN procs' = Exit(p, 1, NoMsg)
       ELSE \/ procs' = [procs EXCEPT ![p].pc = "program",
                                      ![p].prog = procs[p].cmd.argv,
                                      ![p].cmd = NoCommand]
            \/ procs' = Exit(p, 0, Msg("Failed to execute",
                                       procs[p].cmd.argv[1]))
    /\ UNCHANGED <<forkFailed, stdin, arg_buffer, parsed>>

\* the launched program ends, with whatever status
ProgramExit(p) ==
    /\ At(p, "program")
    /\ \E status \in {0, 1} : procs' = Exit(p, status, NoMsg)
    /\ UNCHANGED <<forkFailed, stdin, arg_buffer, parsed>>

\* run_command, case list_command: the fork for the left command
RunList(p) ==
    /\ At(p, "run") /\ procs[p].cmd.type = "list"
    /\ safe_fork(p, "list_wait", "run", {}, procs[p].cmd.left)
    /\ UNCHANGED <<stdin, arg_buffer, parsed>>

\* case list_command: wait(0), then run_command of the right command
ListWait(p) ==
    /\ At(p, "list_wait")
    /\ \E c \in Pids :
         /\ WaitReturns(p, c)
         /\ procs' = [Reaped(p, c) EXCEPT ![p].cmd = procs[p].cmd.right,
                                          ![p].pc = "run"]
    /\ UNCHANGED <<forkFailed, stdin, arg_buffer, parsed>>

\* case pipe_command: pipe(command_communication_pipe)
RunPipe(p) ==
    /\ At(p, "run") /\ procs[p].cmd.type = "pipe"
    /\ \/ /\ Cardinality(FreeFds(procs[p].fds)) >= 2
          /\ LET r == LowestFree(procs[p].fds)
                 w == Min(FreeFds(procs[p].fds) \ {r})
             IN  procs' = [procs EXCEPT ![p].fds[r] = PipeRead(p),
                                        ![p].fds[w] = PipeWrite(p),
                                        ![p].pfd = <<r, w>>,
                                        ![p].pc = "pipe_fork1"]
       \/ procs' = error(p, "Failed to open pipe")
    /\ UNCHANGED <<forkFailed, stdin, arg_buffer, parsed>>

\* case pipe_command: the fork for the first part
PipeFork1(p) ==
    /\ At(p, "pipe_fork1")
    /\ safe_fork(p, "pipe_fork2", "left_close", {<<p, "left">>}, procs[p].cmd)
    /\ UNCHANGED <<stdin, arg_buffer, parsed>>

\* the first child: close(1)
LeftClose(p) ==
    /\ At(p, "left_close")
    /\ procs' = Close(p, 1, "left_dup")
    /\ UNCHANGED <<forkFailed, stdin, arg_buffer, parsed>>

\* the first child: dup(command_communication_pipe[1])
LeftDup(p) ==
    /\ At(p, "left_dup")
    /\ procs' = Dup(p, procs[p].pfd[2], "left_close0")
    /\ UNCHANGED <<forkFailed, stdin, arg_buffer, parsed>>

\* the first child: close(command_communication_pipe[0])
LeftClose0(p) ==
    /\ At(p, "left_close0")
    /\ procs' = Close(p, procs[p].pfd[1], "left_close1")
    /\ UNCHANGED <<forkFailed, stdin, arg_buffer, parsed>>

\* the first child: close(command_communication_pipe[1]), then run_command
\* of the left command
LeftClose1(p) ==
    /\ At(p, "left_close1")
    /\ procs' = [Close(p, procs[p].pfd[2], "run") EXCEPT
                   ![p].cmd = procs[p].cmd.left, ![p].pfd = <<0, 0>>]
    /\ UNCHANGED <<forkFailed, stdin, arg_buffer, parsed>>

\* case pipe_command: the fork for the second part
PipeFork2(p) ==
    /\ At(p, "pipe_fork2")
    /\ safe_fork(p, "pipe_close0", "right_close", {<<p, "right">>}, procs[p].cmd)
    /\ UNCHANGED <<stdin, arg_buffer, parsed>>

\* the second child: close(0)
RightClose(p) ==
    /\ At(p, "right_close")
    /\ procs' = Close(p, 0, "right_dup")
    /\ UNCHANGED <<forkFailed, stdin, arg_buffer, parsed>>

\* the second child: dup(command_communication_pipe[0])
RightDup(p) ==
    /\ At(p, "right_dup")
    /\ procs' = Dup(p, procs[p].pfd[1], "right_close0")
    /\ UNCHANGED <<forkFailed, stdin, arg_buffer, parsed>>

\* the second child: close(command_communication_pipe[0])
RightClose0(p) ==
    /\ At(p, "right_close0")
    /\ procs' = Close(p, procs[p].pfd[1], "right_close1")
    /\ UNCHANGED <<forkFailed, stdin, arg_buffer, parsed>>

\* a second child that keeps the write end of the pipe open
RightClose1Forgotten(p) ==
    /\ At(p, "right_close1")
    /\ procs' = [procs EXCEPT ![p].pc = "run", ![p].cmd = procs[p].cmd.right,
                              ![p].pfd = <<0, 0>>]
    /\ UNCHANGED <<forkFailed, stdin, arg_buffer, parsed>>

\* the second child: close(command_communication_pipe[1]), then run_command
\* of the right command
RightClose1(p) ==
    /\ At(p, "right_close1")
    /\ procs' = [Close(p, procs[p].pfd[2], "run") EXCEPT
                   ![p].cmd = procs[p].cmd.right, ![p].pfd = <<0, 0>>]
    /\ UNCHANGED <<forkFailed, stdin, arg_buffer, parsed>>

\* the parent of a pipe: close(command_communication_pipe[0])
PipeClose0(p) ==
    /\ At(p, "pipe_close0")
    /\ procs' = Close(p, procs[p].pfd[1], "pipe_close1")
    /\ UNCHANGED <<forkFailed, stdin, arg_buffer, parsed>>

\* a parent of a pipe that keeps the write end open
PipeClose1Forgotten(p) ==
    /\ At(p, "pipe_close1")
    /\ procs' = [procs EXCEPT ![p].pc = "pipe_wait1"]
    /\ UNCHANGED <<forkFailed, stdin, arg_buffer, parsed>>

\* the parent of a pipe: close(command_communication_pipe[1])
PipeClose1(p) ==
    /\ At(p, "pipe_close1")
    /\ procs' = Close(p, procs[p].pfd[2], "pipe_wait1")
    /\ UNCHANGED <<forkFailed, stdin, arg_buffer, parsed>>

\* the parent of a pipe: the first wait(0)
PipeWait1(p) ==
    /\ At(p, "pipe_wait1")
    /\ \E c \in Pids :
         /\ WaitReturns(p, c)
         /\ procs' = [Reaped(p, c) EXCEPT ![p].pc = "pipe_wait2"]
    /\ UNCHANGED <<forkFailed, stdin, arg_buffer, parsed>>

\* a parent of a pipe that waits once only
PipeWait2Skipped(p) ==
    /\ At(p, "pipe_wait2")
    /\ procs' = [procs EXCEPT ![p].pc = "pipe_exit"]
    /\ UNCHANGED <<forkFailed, stdin, arg_buffer, parsed>>

\* the parent of a pipe: the second wait(0)
PipeWait2(p) ==
    /\ At(p, "pipe_wait2")
    /\ \E c \in Pids :
         /\ WaitReturns(p, c)
         /\ procs' = [Reaped(p, c) EXCEPT ![p].pc = "pipe_exit"]
    /\ UNCHANGED <<forkFailed, stdin, arg_buffer, parsed>>

\* the parent of a pipe: break, then the exit(0) that ends run_command
PipeExit(p) ==
    /\ At(p, "pipe_exit")
    /\ procs' = Exit(p, 0, NoMsg)
    /\ UNCHANGED <<forkFailed, stdin, arg_buffer, parsed>>

\* a redirection that does not close the descriptor first
RunRedirectionNoClose(p) ==
    /\ At(p, "run") /\ procs[p].cmd.type = "redirection"
    /\ procs' = [procs EXCEPT ![p].pc = "redirection_open"]
    /\ UNCHANGED <<forkFailed, stdin, arg_buffer, parsed>>

\* case redirection_command: close(command_redirection->file_descriptor)
RunRedirection(p) ==
    /\ At(p, "run") /\ procs[p].cmd.type = "redirection"
    /\ procs' = Close(p, procs[p].cmd.file_descriptor, "redirection_open")
    /\ UNCHANGED <<forkFailed, stdin, arg_buffer, parsed>>

\* an open failure that ends the process with status 0
OpenFailsStatus0(p) ==
    Exit(p, 0, Msg("Failed to open file", procs[p].cmd.file_name))

\* case redirection_command: the open failing
OpenFails(p) ==
    Exit(p, 1, Msg("Failed to open file", procs[p].cmd.file_name))

\* case redirection_command: open(p_file_name, file_mode), then run_command
\* of the subordinate command
RedirectionOpen(p) ==
    /\ At(p, "redirection_open")
    /\ \/ /\ FreeFds(procs[p].fds) # {}
          /\ procs' = [procs EXCEPT
               ![p].fds[LowestFree(procs[p].fds)] = File(procs[p].cmd.file_name),
               ![p].opened = Append(@, <<LowestFree(procs[p].fds),
                                         procs[p].cmd.file_name>>),
               ![p].cmd = procs[p].cmd.command,
               ![p].pc = "run"]
       \/ procs' = OpenFails(p)
    /\ UNCHANGED <<forkFailed, stdin, arg_buffer, parsed>>

\* ---------------------------------------------------- the specifications

NotParsed == [buf |-> <<>>, err |-> FALSE, writes |-> {}, cmd |-> NoCommand]

\* the descriptors the shell is started with
StartFds == {{}, {0, 1, 2}, {0, 1, 2, 3}}

Init ==
    /\ \E open \in StartFds :
         procs = [p \in Pids |->
                    IF p = 0
                    THEN [Unused EXCEPT !.st = "live", !.pc = "console",
                                        !.orphan = TRUE,
                                        !.fds = [fd \in Fds |->
                                                   IF fd \in open THEN Console
                                                   ELSE Closed]]
                    ELSE Unused]
    /\ forkFailed = FALSE
    /\ stdin \in Scripts
    /\ arg_buffer = <<>>
    /\ parsed = NotParsed

Next ==
    \/ OpenConsole
    \/ PromptEnd
    \/ PromptUser
    \/ MainFork
    \/ MainWait
    \/ \E p \in LinePids :
         \/ InitReap(p)
         \/ Parse(p)
         \/ RunExecute(p)
         \/ ProgramExit(p)
         \/ RunList(p)
         \/ ListWait(p)
         \/ RunPipe(p)
         \/ PipeFork1(p)
         \/ LeftClose(p)
         \/ LeftDup(p)
         \/ LeftClose0(p)
         \/ LeftClose1(p)
         \/ PipeFork2(p)
         \/ RightClose(p)
         \/ RightDup(p)
         \/ RightClose0(p)
         \/ RightClose1(p)
         \/ PipeClose0(p)
         \/ PipeClose1(p)
         \/ PipeWait1(p)
         \/ PipeWait2(p)
         \/ PipeExit(p)
         \/ RunRedirection(p)
         \/ RedirectionOpen(p)

Spec == Init /\ [][Next]_vars

\* the descriptors that are open in a table
OpenFds(fds) == {fd \in Fds : fds[fd].kind # "closed"}

\* the shell started as init starts it, with descriptors 0, 1 and 2 open
\* and no other
InitStandard == Init /\ OpenFds(procs[0].fds) = {0, 1, 2}

SpecStandard == InitStandard /\ [][Next]_vars

\* ------------------------------------------- parse_execute on its own lines

\* the first characters of the tokens of a line, each token its own
Letters ==
    <<"a", "b", "c", "d", "e", "f", "g", "h", "i", "j", "k", "l", "m", "n",
      "o", "p", "q", "r", "s", "t", "u", "v", "w", "x", "y", "z">>
Token(k, long) ==
    IF long THEN <<Letters[((k - 1) % Len(Letters)) + 1], "+">>
    ELSE <<Letters[((k - 1) % Len(Letters)) + 1]>>

\* the tokens from the k-th to the n-th, sep before each but the first of
\* the line
RECURSIVE Repeat(_, _, _, _)
Repeat(k, n, long, sep) ==
    IF k > n THEN <<>>
    ELSE (IF k = 1 THEN <<>> ELSE sep) \o Token(k, long)
         \o Repeat(k + 1, n, long, sep)

\* a line of n tokens, sep between them, lead before and trail after
TokenLine(n, long, sep, lead, trail) ==
    lead \o Repeat(1, n, long, sep) \o trail

TokenLines ==
    {TokenLine(n, long, sep, lead, trail) :
        n \in 0..MaxTokens, long \in BOOLEAN,
        sep \in {<<" ">>, <<" ", "\t">>}, lead \in {<<>>, <<" ">>},
        trail \in {<<>>, <<" ">>}}

InitExecute ==
    /\ procs = [p \in Pids |-> Unused]
    /\ forkFailed = FALSE
    /\ stdin = <<>>
    /\ arg_buffer \in TokenLines
    /\ parsed = NotParsed

\* parse_execute(buffer) called on the line
ParseExecute ==
    /\ parsed = NotParsed
    /\ parsed' = parse_execute(arg_buffer, 1)
    /\ arg_buffer' = arg_buffer
    /\ UNCHANGED <<procs, forkFailed, stdin>>

NextExecute == ParseExecute

SpecExecute == InitExecute /\ [][NextExecute]_vars

\* ------------------------------------------- parse_command on its own lines

\* the buffers parse_command is called with, by main or by itself on a part
\* of a line
ParseAlphabet == {"a", "b", " ", ">", "<", ";", "|"}
ParseLines == UNION {[1..k -> ParseAlphabet] : k \in 0..MaxParseLen}

InitParse ==
    /\ procs = [p \in Pids |-> Unused]
    /\ forkFailed = FALSE
    /\ stdin = <<>>
    /\ arg_buffer \in ParseLines
    /\ parsed = NotParsed

\* parse_command(buffer) called on the line
ParseCommand ==
    /\ parsed = NotParsed
    /\ parsed' = parse_command(arg_buffer, 1)
    /\ arg_buffer' = arg_buffer
    /\ UNCHANGED <<procs, forkFailed, stdin>>

NextParse == ParseCommand

SpecParse == InitParse /\ [][NextParse]_vars

\* ------------------------------------------------------------- the claims

\* the processes made for the command that c runs: c and all that descend
\* from it
TreeOf(c) ==
    {x \in LinePids : procs[x].st # "unused" /\ (x = c \/ c \in procs[x].anc)}

\* C1: when the process of a Sequence leaves its wait and turns to the right
\* command, the process that ran the left command and every process spawned
\* for the left command have terminated, and the right command is run
\* whatever the left one's exit status was.
C1_SequenceWaitsForLeft ==
    [][\A p \in LinePids :
         (At(p, "list_wait") /\ procs'[p].pc # "list_wait")
         => /\ procs'[p].pc = "run"
            /\ procs'[p].cmd = procs[p].cmd.right
            /\ \A c \in Children(procs, p) :
                 \A x \in TreeOf(c) : procs[x].st # "live"]_vars

\* the parent of a pipe and both of its children are through with their
\* descriptors
SetupPcs ==
    {"left_close", "left_dup", "left_close0", "left_close1",
     "right_close", "right_dup", "right_close0", "right_close1"}
PipeSetupDone(q) ==
    /\ Live(q)
    /\ procs[q].pc \in {"pipe_wait1", "pipe_wait2", "pipe_exit"}
    /\ \A c \in Children(procs, q) : procs[c].pc \notin SetupPcs

WriteHolders(q) ==
    {<<p, fd>> \in Pids \X Fds : procs[p].fds[fd] = PipeWrite(q)}
ReadHolders(q) ==
    {<<p, fd>> \in Pids \X Fds : procs[p].fds[fd] = PipeRead(q)}

\* C2: once the parent of a pipe and both children have set up their
\* descriptors, the write end is open only as descriptor 1 of processes on
\* the left side and the read end only as descriptor 0 of processes on the
\* right side; so when no process of the left side has it as descriptor 1,
\* nobody holds the write end.
C2_PipeEndsOnlyAtTheirSides ==
    \A q \in LinePids :
      PipeSetupDone(q)
      => /\ \A h \in WriteHolders(q) :
              h[2] = 1 /\ <<q, "left">> \in procs[h[1]].sides
         /\ \A h \in ReadHolders(q) :
              h[2] = 0 /\ <<q, "right">> \in procs[h[1]].sides
         /\ (\A p \in Pids : <<q, "left">> \in procs[p].sides
                              => procs[p].fds[1] # PipeWrite(q))
            => WriteHolders(q) = {}

\* C2's case: a pipe set up, both sides running their programs on its ends
C2_Witness ==
    \E q \in LinePids :
      /\ PipeSetupDone(q)
      /\ \E l, r \in LinePids :
           /\ At(l, "program") /\ procs[l].fds[1] = PipeWrite(q)
           /\ At(r, "program") /\ procs[r].fds[0] = PipeRead(q)

\* C3: the process of a pipe whose two forks succeeded terminates only when
\* none of its children is still alive.
C3_PipeParentOutlivesChildren ==
    [][\A q \in LinePids :
         (/\ Live(q)
          /\ procs[q].pc \in {"pipe_close0", "pipe_close1", "pipe_wait1",
                              "pipe_wait2", "pipe_exit"}
          /\ procs'[q].st # "live")
         => /\ procs[q].pc = "pipe_exit"
            /\ \A c \in Children(procs, q) : procs[c].st # "live"]_vars

\* C3's case: the parent of a pipe at its end with both children reaped
C3_Witness ==
    \E q \in LinePids :
      /\ At(q, "pipe_exit")
      /\ Children(procs, q) = {}
      /\ \A p \in LinePids \ {q} : q \in procs[p].anc => procs[p].st # "live"

\* C4: a process whose exec returned ends with status 1, never 0, after
\* "Failed to execute <name>".
C4_ExecFailureIsStatus1 ==
    \A p \in LinePids :
      (procs[p].st = "zombie" /\ procs[p].msg.text = "Failed to execute")
      => procs[p].xstatus = 1

\* C5: the open of a Redirect that succeeds binds the file to the node's
\* own descriptor, and but for that descriptor the table is as it was
\* before the Redirect's close.
C5_RedirectBindsItsDescriptor ==
    [][\A p \in LinePids :
         /\ (At(p, "run") /\ procs[p].cmd.type = "redirection"
             /\ procs'[p].pc = "redirection_open")
            => \A fd \in Fds \ {procs[p].cmd.file_descriptor} :
                 procs'[p].fds[fd] = procs[p].fds[fd]
         /\ (At(p, "redirection_open") /\ procs'[p].st = "live"
             /\ procs'[p].pc # "redirection_open")
            => /\ procs'[p].fds[procs[p].cmd.file_descriptor]
                    = File(procs[p].cmd.file_name)
               /\ \A fd \in Fds \ {procs[p].cmd.file_descriptor} :
                    procs'[p].fds[fd] = procs[p].fds[fd]]_vars

\* C5's case: a Redirect of descriptor 1 carried out in the right child of a
\* pipe, whose descriptor 0 is the pipe
C5_Witness ==
    \E p \in LinePids :
      /\ Live(p)
      /\ procs[p].fds[1].kind = "file"
      /\ procs[p].fds[0].kind = "pipe_read"
      /\ procs[p].fds[2].kind = "console"

\* C6: when the open of a Redirect fails, its process reports "Failed to
\* open file <name>" and ends with status 1 without having launched a
\* program, and no other process ends with it.
C6_OpenFailureEndsOnlyItsProcess ==
    [][\A p \in LinePids :
         (At(p, "redirection_open") /\ procs'[p].st # "live")
         => /\ procs'[p].st = "zombie"
            /\ procs'[p].msg = Msg("Failed to open file", procs[p].cmd.file_name)
            /\ procs'[p].xstatus = 1
            /\ procs'[p].prog = <<>>
            /\ \A o \in Pids \ {p} : procs'[o].st = procs[o].st]_vars

\* C6's case: the open failed in one child of a pipe while the other child
\* is alive
C6_Witness ==
    \E p, o \in LinePids :
      /\ procs[p].st = "zombie" /\ procs[p].msg.text = "Failed to open file"
      /\ o # p /\ Live(o) /\ procs[o].parent = procs[p].parent
      /\ ~procs[o].orphan

\* C7: once a fork has failed for a line, no program of the line is launched.
C7_NoLaunchAfterFailedFork ==
    [][forkFailed
       => \A p \in LinePids :
            procs'[p].pc = "program" => procs[p].pc = "program"]_vars

MissingFileName(buf) ==
    \E i \in 1..Len(buf) :
      /\ buf[i] \in {"<", ">"}
      /\ \A j \in (i + 1)..Len(buf) :
           (\A k \in (i + 1)..(j - 1) : buf[k] \in {" ", "\t", "\r", "\n", VT})
           => buf[j] \in {" ", "\t", "\r", "\n", VT, ";", "|", "<", ">"}

\* C9: the process of a line with a redirection without file name does but
\* one thing: it reports "Failed to parse filename for redirection" and
\* ends with status 1; it has forked nothing, changed no descriptor and
\* launched no program.
C9_MissingFileNameEndsTheLine ==
    [][\A p \in LinePids :
         (At(p, "parse") /\ MissingFileName(procs[p].buffer)
          /\ procs'[p] # procs[p])
         => /\ procs[p].fds = procs[0].fds
            /\ TreeOf(p) = {p}
            /\ procs'[p].st = "zombie"
            /\ procs'[p].msg = Msg("Failed to parse filename for redirection", <<>>)
            /\ procs'[p].xstatus = 1
            /\ procs'[p].prog = <<>>
            /\ \A o \in Pids \ {p} : procs'[o] = procs[o]]_vars

\* C9's case: the process of a line ended by the parse error, the shell
\* waiting for it and no other process made
C9_Witness ==
    \E p \in LinePids :
      /\ procs[p].st = "zombie"
      /\ procs[p].msg.text = "Failed to parse filename for redirection"
      /\ At(0, "wait")
      /\ \A o \in LinePids \ {p} : procs[o].st = "unused"

\* the tokens of a line: where each starts
TokenStarts(buf) ==
    {i \in 1..Len(buf) : ~IsWhite(buf[i]) /\ (i = 1 \/ IsWhite(buf[i - 1]))}

\* C10: of a line of more than 16 tokens parse_execute makes the first 16
\* its arguments, and it writes no element of argv but those of 0..15.
C10_SixteenArgumentsNoOverflow ==
    (parsed # NotParsed /\ Cardinality(TokenStarts(arg_buffer)) > MAXIMUM_ARGUMENTS)
    => /\ parsed.writes \subseteq 0..(MAXIMUM_ARGUMENTS - 1)
       /\ \A i \in 1..MAXIMUM_ARGUMENTS :
            /\ parsed.cmd.argv[i] \in TokenStarts(arg_buffer)
            /\ Cardinality({t \in TokenStarts(arg_buffer) :
                              t < parsed.cmd.argv[i]}) = i - 1

\* ---------------------------------------------------- claims on the parser

\* the tree a parse yields, with its strings
Tree(r) == Strings(r.buf, r.cmd)
\* the parse of a text of its own
ParseOf(text) == parse_command(text, 1)
\* parse_command has been applied to arg_buffer
Parsed == parsed # NotParsed

\* the part of a line before position k, and the part after it
Before(line, k) == SubSeq(line, 1, k - 1)
After(line, k) == SubSeq(line, k + 1, Len(line))

\* the first and the last position of c in a line, 0 when there is none
FirstPos(line, c) ==
    IF \E i \in 1..Len(line) : line[i] = c
    THEN CHOOSE i \in 1..Len(line) :
           line[i] = c /\ \A j \in 1..(i - 1) : line[j] # c
    ELSE 0
LastPos(line, c) ==
    IF \E i \in 1..Len(line) : line[i] = c
    THEN CHOOSE i \in 1..Len(line) :
           line[i] = c /\ \A j \in (i + 1)..Len(line) : line[j] # c
    ELSE 0

Blank == {" ", "\t", "\r", "\n", VT}

\* the file name after position k of a line: whitespace apart, the
\* characters up to the next whitespace or operator
NameAfter(line, k) ==
    LET from == IF \E i \in (k + 1)..Len(line) : line[i] \notin Blank
                THEN CHOOSE i \in (k + 1)..Len(line) :
                       line[i] \notin Blank
                       /\ \A j \in (k + 1)..(i - 1) : line[j] \in Blank
                ELSE Len(line) + 1
        stops == {i \in from..Len(line) :
                    line[i] \in Blank \cup {";", "|", "<", ">"}}
        to == IF stops = {} THEN Len(line) ELSE Min(stops) - 1
    IN  SubSeq(line, from, to)

\* a line without ';' and '|' that holds both '>' and '<'
BothRedirections(line) ==
    /\ FirstPos(line, ";") = 0 /\ FirstPos(line, "|") = 0
    /\ LastPos(line, ">") # 0 /\ LastPos(line, "<") # 0

\* the Redirect node made by splitting the line at position k
SplitAt(line, k) ==
    [type |-> "redirection",
     command |-> Tree(ParseOf(Before(line, k))),
     file_name |-> NameAfter(line, k),
     file_mode |-> IF line[k] = "<" THEN "O_RDONLY" ELSE "O_WRONLY|O_CREATE",
     file_descriptor |-> IF line[k] = "<" THEN 0 ELSE 1]

\* C11: of a line without ';' and '|' that holds both '>' and '<',
\* parse_command makes the Redirect node of the split at the smaller of the
\* offsets of the last '>' and the last '<'.
C11_SplitAtSmallerOffset ==
    (Parsed /\ BothRedirections(arg_buffer) /\ ~parsed.err)
    => Tree(parsed) = SplitAt(arg_buffer,
                              IF LastPos(arg_buffer, ">") < LastPos(arg_buffer, "<")
                              THEN LastPos(arg_buffer, ">")
                              ELSE LastPos(arg_buffer, "<"))

\* C11 as amended: it is the larger of the two offsets at which the line is
\* split: the Redirect of the textually last redirection is the outer node,
\* its inner command is the parse of the text before it, and the parse
\* fails exactly when that one fails or no file name follows.
C11_SplitAtLargerOffset ==
    (Parsed /\ BothRedirections(arg_buffer))
    => LET k == IF LastPos(arg_buffer, ">") < LastPos(arg_buffer, "<")
                THEN LastPos(arg_buffer, "<")
                ELSE LastPos(arg_buffer, ">")
       IN  /\ parsed.err <=> (ParseOf(Before(arg_buffer, k)).err
                              \/ NameAfter(arg_buffer, k) = <<>>)
           /\ ~parsed.err => Tree(parsed) = SplitAt(arg_buffer, k)

\* C11's case: "a<b>a" parsed, the outer node that of '>' and the inner
\* one that of '<'
C11_Witness ==
    /\ Parsed /\ ~parsed.err
    /\ arg_buffer = <<"a", "<", "b", ">", "a">>
    /\ Tree(parsed).file_descriptor = 1
    /\ Tree(parsed).command.type = "redirection"
    /\ Tree(parsed).command.file_descriptor = 0

\* the node of the given type over the parses of the two parts of the line
\* around position k
Around(line, k, type) ==
    [type |-> type,
     left |-> Tree(ParseOf(Before(line, k))),
     right |-> Tree(ParseOf(After(line, k)))]

\* the parse of a line split at k fails exactly when that of a part does
FailsAround(line, k) ==
    ParseOf(Before(line, k)).err \/ ParseOf(After(line, k)).err

\* C12: a line with a ';' parses to the Sequence of the parse of the text
\* before the first ';' and the parse of the text after it, and a line
\* without ';' but with a '|' to the Pipe of the parses of the texts around
\* the first '|'; so chains nest to the right, the left child of a Sequence
\* being no Sequence and that of a Pipe no Pipe.
C12_SplitAtFirstOperator ==
    Parsed
    => LET semi == FirstPos(arg_buffer, ";")
           bar == FirstPos(arg_buffer, "|")
       IN  /\ semi # 0
              => /\ parsed.err <=> FailsAround(arg_buffer, semi)
                 /\ ~parsed.err
                    => /\ Tree(parsed) = Around(arg_buffer, semi, "list")
                       /\ Tree(parsed).left.type # "list"
           /\ (semi = 0 /\ bar # 0)
              => /\ parsed.err <=> FailsAround(arg_buffer, bar)
                 /\ ~parsed.err
                    => /\ Tree(parsed) = Around(arg_buffer, bar, "pipe")
                       /\ Tree(parsed).left.type \notin {"list", "pipe"}

\* C12's case: "a;b;a" parsed to Sequence(a, Sequence(b, a))
C12_Witness ==
    /\ Parsed /\ ~parsed.err
    /\ arg_buffer = <<"a", ";", "b", ";", "a">>
    /\ Tree(parsed) =
         [type |-> "list",
          left |-> [type |-> "execute", argv |-> << <<"a">> >>],
          right |-> [type |-> "list",
                     left |-> [type |-> "execute", argv |-> << <<"b">> >>],
                     right |-> [type |-> "execute", argv |-> << <<"a">> >>]]]

\* the i-th token of a line: where it starts and what it is
NthStart(buf, i) ==
    CHOOSE t \in TokenStarts(buf) :
      Cardinality({u \in TokenStarts(buf) : u < t}) = i - 1
TokenFrom(buf, t) ==
    LET stops == {j \in t..Len(buf) : IsWhite(buf[j])}
    IN  SubSeq(buf, t, IF stops = {} THEN Len(buf) ELSE Min(stops) - 1)

\* C13: of a line of N tokens, 1 <= N <= 16, parse_execute makes the
\* Execute node whose i-th argument points at the i-th token of the buffer,
\* which is terminated in place right after the token, and whose other
\* argument slots are null: the argument list is the tokens in their order.
C13_ArgumentsAreTheTokens ==
    LET n == Cardinality(TokenStarts(arg_buffer))
    IN  (parsed # NotParsed /\ n >= 1 /\ n <= MAXIMUM_ARGUMENTS)
        => /\ parsed.cmd.type = "execute"
           /\ \A i \in 1..n :
                LET t == NthStart(arg_buffer, i)
                    tok == TokenFrom(arg_buffer, t)
                IN  /\ parsed.cmd.argv[i] = t
                    /\ Ch(parsed.buf, t + Len(tok)) = NUL
                    /\ \A j \in 1..Len(tok) : parsed.buf[t + j - 1] = tok[j]
           /\ \A i \in (n + 1)..MAXIMUM_ARGUMENTS : parsed.cmd.argv[i] = 0
           /\ Tree(parsed).argv
                = [i \in 1..n |-> TokenFrom(arg_buffer, NthStart(arg_buffer, i))]

\* C13's case: a line of 16 tokens of two characters, whitespace before
\* and after, parsed
C13_Witness ==
    /\ parsed # NotParsed
    /\ Cardinality(TokenStarts(arg_buffer)) = MAXIMUM_ARGUMENTS
    /\ arg_buffer[1] = " " /\ arg_buffer[Len(arg_buffer)] = " "
    /\ Len(Tree(parsed).argv) = MAXIMUM_ARGUMENTS
    /\ Tree(parsed).argv[2] = <<"b", "+">>

\* the nodes of a tree
RECURSIVE Nodes(_)
Nodes(t) ==
    IF t.type \in {"list", "pipe"} THEN {t} \cup Nodes(t.left) \cup Nodes(t.right)
    ELSE IF t.type = "redirection" THEN {t} \cup Nodes(t.command)
    ELSE {t}

\* C14: every Redirect node that parse_command makes is either that of a
\* '>', with descriptor 1 and the mode write-only, create and truncate, or
\* that of a '<', with descriptor 0 and the mode read-only.
C14_RedirectionModes ==
    (Parsed /\ ~parsed.err)
    => \A t \in Nodes(Tree(parsed)) :
         t.type = "redirection"
         => \/ t.file_descriptor = 1 /\ t.file_mode = "O_WRONLY|O_CREATE|O_TRUNC"
            \/ t.file_descriptor = 0 /\ t.file_mode = "O_RDONLY"

\* a text of whitespace only, the empty one included
WhiteText(text) == \A i \in 1..Len(text) : text[i] \in Blank

\* the Execute node without arguments
NoArguments == [type |-> "execute", argv |-> <<>>]

\* a text of two parts of whitespace only around one ';' or '|'
WhiteAround(text, op) ==
    /\ FirstPos(text, op) # 0
    /\ WhiteText(Before(text, FirstPos(text, op)))
    /\ WhiteText(After(text, FirstPos(text, op)))

\* C15: of a text of whitespace only, be it the whole line or what stands
\* on a side of a ';' or '|', parse_command makes an Execute node without
\* arguments, and the process that runs such a node ends at once with
\* status 1: it launches no program, writes no message, forks nothing and
\* leaves every other process as it was.
C15_WhitespaceLineFailsAtOnce ==
    [][\A p \in LinePids :
         /\ (At(p, "parse") /\ procs'[p].pc # "parse")
            => /\ WhiteText(procs[p].buffer)
                  => /\ procs'[p].st = "live" /\ procs'[p].pc = "run"
                     /\ procs'[p].cmd = NoArguments
                     /\ procs'[p].fds = procs[p].fds
               /\ WhiteAround(procs[p].buffer, ";")
                  => procs'[p].cmd = [type |-> "list", left |-> NoArguments,
                                      right |-> NoArguments]
               /\ WhiteAround(procs[p].buffer, "|")
                  => procs'[p].cmd = [type |-> "pipe", left |-> NoArguments,
                                      right |-> NoArguments]
         /\ (At(p, "run") /\ procs[p].cmd = NoArguments
             /\ procs'[p].pc # "run")
            => /\ procs'[p].st = "zombie"
               /\ procs'[p].xstatus = 1
               /\ procs'[p].prog = <<>>
               /\ procs'[p].msg = NoMsg
               /\ \A o \in Pids \ {p} : procs'[o] = procs[o]]_vars

\* C15's case: the process of a line of whitespace only has ended with
\* status 1 and the shell waits for it
C15_Witness ==
    \E p \in LinePids :
      /\ At(0, "wait") /\ procs[0].buffer = <<>>
      /\ procs[p].parent = 0 /\ ~procs[p].orphan
      /\ procs[p].st = "zombie" /\ procs[p].xstatus = 1
      /\ procs[p].prog = <<>> /\ procs[p].msg = NoMsg

\* ------------------------------------------------------- fair scheduling

\* a launched program is not held up for ever by its pipes: what it reads
\* from a pipe comes to an end once nobody holds the write end, and what it
\* writes to a pipe is taken by a program reading it, or fails once nobody
\* holds the read end
ProgramCanEnd(p) ==
    /\ procs[p].fds[0].kind = "pipe_read"
       => WriteHolders(procs[p].fds[0].pipe) = {}
    /\ procs[p].fds[1].kind = "pipe_write"
       => \/ ReadHolders(procs[p].fds[1].pipe) = {}
          \/ \E r \in LinePids :
               At(r, "program") /\ procs[r].fds[0] = PipeRead(procs[p].fds[1].pipe)

\* the end of a program that its pipes do not hold up
ProgramEnds(p) == ProgramCanEnd(p) /\ ProgramExit(p)

\* the steps of the shell, and those of a process of a line
ShellStep == OpenConsole \/ PromptEnd \/ PromptUser \/ MainFork \/ MainWait
LineStep(p) ==
    \/ Parse(p) \/ RunExecute(p) \/ ProgramEnds(p)
    \/ RunList(p) \/ ListWait(p)
    \/ RunPipe(p) \/ PipeFork1(p) \/ PipeFork2(p)
    \/ LeftClose(p) \/ LeftDup(p) \/ LeftClose0(p) \/ LeftClose1(p)
    \/ RightClose(p) \/ RightDup(p) \/ RightClose0(p) \/ RightClose1(p)
    \/ PipeClose0(p) \/ PipeClose1(p) \/ PipeWait1(p) \/ PipeWait2(p)
    \/ PipeExit(p)
    \/ RunRedirection(p) \/ RedirectionOpen(p)

\* as long as some process can take a step, one is taken in the end: the
\* least that a fair scheduler grants
Fairness == WF_vars(ShellStep \/ \E p \in LinePids : LineStep(p))

SpecFair == Spec /\ Fairness

\* C16: under fair scheduling, with programs that end unless a pipe holds
\* them up, every process ends for good, the shell itself once its input is
\* at its end: the shell never stays in its wait and no process of a line
\* stays for ever in a wait or at a pipe end that somebody keeps open.
C16_EveryLineEnds == <>[](\A p \in Pids : ~Live(p))

\* C16's case: while the shell waits, the parent of a pipe waits for a
\* program that reads the pipe, whose write end nobody holds any more
C16_Witness ==
    \E q, r \in LinePids :
      /\ At(0, "wait")
      /\ Live(q) /\ procs[q].pc \in {"pipe_wait1", "pipe_wait2"}
      /\ At(r, "program") /\ procs[r].fds[0] = PipeRead(q)
      /\ WriteHolders(q) = {}

\* C17: in a shell started with descriptors 0, 1 and 2 open and no other,
\* every process of a line that has launched a program has exactly the
\* descriptors 0, 1 and 2 open: no end of a pipe and no file at 3 or above,
\* and none of the three closed.
C17_ProgramsGetThreeDescriptors ==
    \A p \in LinePids :
      At(p, "program") => OpenFds(procs[p].fds) = {0, 1, 2}

\* C17's case: a program launched below a Pipe and a Redirect, its input
\* the pipe and its output a file
C17_Witness ==
    \E p \in LinePids :
      /\ At(p, "program")
      /\ procs[p].fds[0].kind = "pipe_read"
      /\ procs[p].fds[1].kind = "file"
      /\ OpenFds(procs[p].fds) = {0, 1, 2}

\* C18: when the wait of main returns and the shell goes to its next
\* prompt, no process made for the line is alive any more, whatever failed
\* on the way.
C18_NoProcessOutlivesItsLine ==
    [][(At(0, "wait") /\ procs'[0].pc = "prompt")
       => \A p \in LinePids : procs'[p].st # "live"]_vars

\* the types of the nodes of a tree
Types(t) == {n.type : n \in Nodes(t)}

\* C19: in every tree that parse_command makes, below a Pipe there is no
\* Sequence and in the left child of a Pipe no Pipe, and below a Redirect
\* there is neither a Sequence nor a Pipe.
C19_TreesAreStratified ==
    (Parsed /\ ~parsed.err)
    => \A t \in Nodes(Tree(parsed)) :
         /\ t.type = "pipe"
            => /\ "list" \notin Types(t.left) \cup Types(t.right)
               /\ "pipe" \notin Types(t.left)
         /\ t.type = "redirection"
            => Types(t.command) \cap {"list", "pipe"} = {}

\* C19's case: "a|b>a" parsed to Pipe(a, Redirect(b, "a", write))
C19_Witness ==
    /\ Parsed /\ ~parsed.err
    /\ arg_buffer = <<"a", "|", "b", ">", "a">>
    /\ Tree(parsed).type = "pipe"
    /\ Tree(parsed).left = [type |-> "execute", argv |-> << <<"a">> >>]
    /\ Tree(parsed).right.type = "redirection"
    /\ Tree(parsed).right.command = [type |-> "execute", argv |-> << <<"b">> >>]
    /\ Tree(parsed).right.file_name = <<"a">>
    /\ Tree(parsed).right.file_descriptor = 1

\* the positions of an operator in a line, and the i-th of them
Positions(line, op) == {i \in 1..Len(line) : line[i] = op}
NthOf(S, i) == CHOOSE x \in S : Cardinality({y \in S : y < x}) = i - 1

\* the file names of the redirections with op of a line, in the order of
\* the text
RedirectionNames(line, op) ==
    [i \in 1..Cardinality(Positions(line, op)) |->
        NameAfter(line, NthOf(Positions(line, op), i))]

\* the file names a process has opened as descriptor fd, in the order of
\* the opens
RECURSIVE OpenedAs(_, _)
OpenedAs(log, fd) ==
    IF log = <<>> THEN <<>>
    ELSE (IF Head(log)[1] = fd THEN <<Head(log)[2]>> ELSE <<>>)
         \o OpenedAs(Tail(log), fd)

Reverse(seq) == [i \in 1..Len(seq) |-> seq[Len(seq) + 1 - i]]

\* the process of a line without ';' and '|' has launched the program and
\* the shell waits for it
LaunchedFor(p, line) ==
    /\ At(0, "wait") /\ procs[0].buffer = line
    /\ FirstPos(line, ";") = 0 /\ FirstPos(line, "|") = 0
    /\ At(p, "program") /\ procs[p].parent = 0 /\ ~procs[p].orphan

\* C20: when the program of a line without ';' and '|' is launched, the
\* files of its '>' redirections have been opened as descriptor 1 from the
\* textually last to the textually first, and descriptor 1 is bound to the
\* first; likewise the '<' ones and descriptor 0; and no other descriptor
\* is bound to a file, those of the later files being closed again.
C20_FirstRedirectionWins ==
    \A p \in LinePids :
      LaunchedFor(p, procs[0].buffer)
      => LET line == procs[0].buffer
             out == RedirectionNames(line, ">")
             in == RedirectionNames(line, "<")
         IN  /\ OpenedAs(procs[p].opened, 1) = Reverse(out)
             /\ OpenedAs(procs[p].opened, 0) = Reverse(in)
             /\ out # <<>> => procs[p].fds[1] = File(out[1])
             /\ in # <<>> => procs[p].fds[0] = File(in[1])
             /\ {fd \in Fds : procs[p].fds[fd].kind = "file"}
                  = {fd \in {0, 1} : (IF fd = 1 THEN out ELSE in) # <<>>}

\* C20's case: the program of "a>b>c" launched with descriptor 1 bound to
\* b, after c and then b were opened
C20_Witness ==
    \E p \in LinePids :
      /\ LaunchedFor(p, <<"a", ">", "b", ">", "c">>)
      /\ procs[p].opened = << <<1, <<"c">> >>, <<1, <<"b">> >> >>
      /\ procs[p].fds[1] = File(<<"b">>)
====
